---- MODULE Spec2Model ----
(***************************************************************************)
(* Metricologist: MetricCollector (src/lib/MetricCollector.js) and the     *)
(* CloudWatchDriver it owns (src/unnamed/part_000).                        *)
(*                                                                         *)
(* A JavaScript object is a TLA+ record whose DOMAIN is the set of own     *)
(* properties; a string is a TLA+ string (\o is concatenation); the        *)
(* `dimensions` object is the sequence of its [Name, Value] properties in  *)
(* Object.keys order; a `value` is [num |-> n] for a number and            *)
(* [arr |-> <<...>>] for an array of numbers.                              *)
(***************************************************************************)
EXTENDS Bags, FiniteSets, Integers, Sequences, TLC

VARIABLES
    auto,        \* this.auto
    stopped,     \* this._stopped
    metrics,     \* this._metrics: the Map, as its entries [key, metric] in insertion order
    flushTimer,  \* this._flushTimer: "unset", or "armed"/"fired"/"cleared" (state of the timeout it names)
    timers,      \* number of timeouts scheduled by setTimeout that are still pending
    sends,       \* the sendMetrics calls made so far: their BPromise.map state and the
                 \* putMetricData calls each has issued, with their outcome
    last,        \* the most recent addMetrics/_setupFlushTimer/flush/stop call or timer expiry, the value
                 \* of `ops` when it returned, and its result
    arrivals,    \* history: observations stored in the map since it was last emptied
    added,       \* history: bag of all observation values stored by addMetrics
    manual,      \* history: flush, stop, clearMetrics or _setupFlushTimer was called by the user
    cleared,     \* history: clearMetrics was called by the user
    ops          \* history: how many operations the user called

vars == <<auto, stopped, metrics, flushTimer, timers, sends, last,
          arrivals, added, manual, cleared, ops>>

----------------------------------------------------------------------------
(* Bounds of the model *)

MaxOps == 3          \* operations the user calls on the aggregator in one behaviour
MaxRecords == 41     \* longest list handed directly to sendMetrics

(* Program constants *)

METRIC_COUNT_LIMIT == 20

UNITS == [COUNT |-> "Count", MILLIS |-> "Milliseconds", NONE |-> "None"]

\* errors the transport may reject with
Errors == {"E1", "E2"}

----------------------------------------------------------------------------
(* Inputs *)

Dim(n, v) == [Name |-> n, Value |-> v]

\* Observations given to addMetrics.
ObsCount    == [name |-> "a", dimensions |-> <<Dim("p", "x")>>, value |-> 1, units |-> UNITS.COUNT]
ObsMillis   == [name |-> "a", dimensions |-> <<Dim("p", "x")>>, value |-> 5, units |-> UNITS.MILLIS]
ObsOtherDim == [name |-> "a", dimensions |-> <<Dim("q", "x")>>, value |-> 3]
ObsB        == [name |-> "b", dimensions |-> <<Dim("p", "x")>>, value |-> 2]
ObsColon    == [name |-> "a", dimensions |-> <<Dim("p", "x:y")>>, value |-> 4]
ObsTwoDims  == [name |-> "a", dimensions |-> <<Dim("p", "x"), Dim("q", "y")>>, value |-> 6]
ObsNoDims   == [name |-> "b", value |-> 7]

ObsSet == {ObsCount, ObsMillis, ObsOtherDim, ObsB, ObsColon, ObsTwoDims, ObsNoDims}

\* Observations given to addMetrics in lists of two.
PairObs == {ObsCount, ObsNoDims}

\* A list of n observations with pairwise distinct names and no dimensions.
BulkObs(n) ==
    [i \in 1..n |-> [name |-> "m" \o ToString(i), dimensions |-> <<>>, value |-> i]]

\* Arguments of addMetrics: nothing, one observation, or a list of them.
AddArgs ==
    {[kind |-> "undefined"]}
    \cup {[kind |-> "one", obs |-> o] : o \in ObsSet}
    \cup {[kind |-> "list", list |-> <<>>]}
    \cup {[kind |-> "list", list |-> <<o1, o2>>] : o1 \in PairObs, o2 \in PairObs}

\* Arguments of addMetrics where the flush cycle is explored: two observations
\* of one key, and a list longer than one chunk.
FlushArgs ==
    {[kind |-> "one", obs |-> o] : o \in {ObsCount, ObsMillis}}
    \cup {[kind |-> "list", list |-> BulkObs(METRIC_COUNT_LIMIT + 1)]}

\* The i-th raw metric of a list handed directly to sendMetrics: scalar
\* values, one-element arrays and longer arrays, with and without unit,
\* timestamp and dimensions.
RawMetric(i) ==
    LET value == CASE i % 3 = 1 -> [num |-> i]
                   [] i % 3 = 2 -> [arr |-> <<i>>]
                   [] OTHER     -> [arr |-> <<i, 1, i + 2>>]
        base == [name |-> "metric" \o ToString(i), value |-> value]
        dims == IF i % 2 = 0 THEN [dimensions |-> <<Dim("d", ToString(i))>>] ELSE <<>>
        unit == IF i % 4 = 1 THEN [unit |-> UNITS.COUNT] ELSE <<>>
        ts   == IF i % 5 = 0 THEN [timestamp |-> i] ELSE <<>>
    IN  base @@ dims @@ unit @@ ts

RawList(n) == [i \in 1..n |-> RawMetric(i)]

----------------------------------------------------------------------------
(* Helpers *)

Has(obj, field) == field \in DOMAIN obj

Min2(a, b) == IF a <= b THEN a ELSE b
Max2(a, b) == IF a >= b THEN a ELSE b

\* arr.reduce((a, b) => Math.max(a, b)) on a non-empty array (no initial value)
RECURSIVE ReduceMax(_)
ReduceMax(arr) ==
    IF Len(arr) = 1 THEN arr[1]
    ELSE Max2(ReduceMax(SubSeq(arr, 1, Len(arr) - 1)), arr[Len(arr)])

\* arr.reduce((a, b) => Math.min(a, b)) on a non-empty array
RECURSIVE ReduceMin(_)
ReduceMin(arr) ==
    IF Len(arr) = 1 THEN arr[1]
    ELSE Min2(ReduceMin(SubSeq(arr, 1, Len(arr) - 1)), arr[Len(arr)])

\* arr.reduce((a, b) => a + b) on a non-empty array
RECURSIVE ReduceSum(_)
ReduceSum(arr) ==
    IF Len(arr) = 1 THEN arr[1]
    ELSE ReduceSum(SubSeq(arr, 1, Len(arr) - 1)) + arr[Len(arr)]

\* Array.prototype.join
RECURSIVE Join(_, _)
Join(strs, sep) ==
    IF Len(strs) = 0 THEN ""
    ELSE IF Len(strs) = 1 THEN strs[1]
    ELSE strs[1] \o sep \o Join(Tail(strs), sep)

\* [].concat(x): a list stays a list, anything else becomes a one-element list
ConcatToList(arg) == IF arg.kind = "list" THEN arg.list ELSE <<arg.obs>>

----------------------------------------------------------------------------
(* MetricCollector: pure parts *)

DimensionValues(metricData) ==
    [i \in 1..Len(metricData.dimensions) |-> metricData.dimensions[i].Value]

\* _getMetricKey: `${name}:${values of dimensions joined by ':'}`
getMetricKey(metricData) ==
    metricData.name \o ":" \o Join(DimensionValues(metricData), ":")

\* Object.keys(metricData.dimensions) throws a TypeError when dimensions is undefined
KeyThrows(metricData) == ~Has(metricData, "dimensions")

\* Map.prototype.get: the position of the entry with this key, 0 when there is none
MapIndex(m, key) ==
    IF \E i \in 1..Len(m) : m[i].key = key
    THEN CHOOSE i \in 1..Len(m) : m[i].key = key
    ELSE 0

\* a forEach callback that merges by Object.assign: the existing metric takes
\* the fields of the latest observation
AddOneTakesLatest(m, metricData) ==
    LET key == metricData.name \o ":" \o Join(DimensionValues(metricData), ":")
        i == MapIndex(m, key)
    IN  IF i # 0
        THEN [m EXCEPT ![i].metric =
                 [metricData EXCEPT !.value = [arr |-> Append(m[i].metric.value.arr, metricData.value)]]]
        ELSE Append(m, [key |-> key,
                        metric |-> [metricData EXCEPT !.value = [arr |-> <<metricData.value>>]]])

\* a forEach callback that overwrites the samples of an existing metric
AddOneOverwrite(m, metricData) ==
    LET key == metricData.name \o ":" \o Join(DimensionValues(metricData), ":")
        i == MapIndex(m, key)
    IN  IF i # 0
        THEN [m EXCEPT ![i].metric.value = [arr |-> <<metricData.value>>]]
        ELSE Append(m, [key |-> key,
                        metric |-> [metricData EXCEPT !.value = [arr |-> <<metricData.value>>]]])

\* the body of the forEach callback of addMetrics
AddOne(m, metricData) ==
    LET key == getMetricKey(metricData)
        i == MapIndex(m, key)
    IN  IF i # 0
        THEN [m EXCEPT ![i].metric.value = [arr |-> Append(@.arr, metricData.value)]]
        ELSE Append(m, [key |-> key,
                        metric |-> [metricData EXCEPT !.value = [arr |-> <<metricData.value>>]]])

\* metricsData.forEach(...): stops at the first observation whose key computation throws
RECURSIVE ForEach(_, _, _)
ForEach(m, list, i) ==
    IF i > Len(list) THEN [map |-> m, threw |-> FALSE, stored |-> Len(list)]
    ELSE IF KeyThrows(list[i]) THEN [map |-> m, threw |-> TRUE, stored |-> i - 1]
    ELSE ForEach(AddOne(m, list[i]), list, i + 1)

\* getMetrics: Array.from(this._metrics.values())
getMetrics == [i \in 1..Len(metrics) |-> metrics[i].metric]

\* a clearTimeout that cancels nothing
ClearTimeoutNothing(t) == t

\* clearTimeout(this._flushTimer), on the pair [flushTimer, timers]
ClearTimeout(t) ==
    IF t.flushTimer = "armed"
    THEN [flushTimer |-> "cleared", timers |-> t.timers - 1]
    ELSE t

\* a _setupFlushTimer that schedules a timeout without cancelling the old one
SetupFlushTimerNoClear(t) ==
    [flushTimer |-> "armed", timers |-> t.timers + 1]

\* _setupFlushTimer: clearTimeout, then setTimeout(flush, flushFrequency)
SetupFlushTimer(t) ==
    [flushTimer |-> "armed", timers |-> ClearTimeout(t).timers + 1]

Timer == [flushTimer |-> flushTimer, timers |-> timers]

\* what a call returns: the aggregator itself, BPromise.resolve(), the
\* promise of the id-th sendMetrics call, or nothing
This == [kind |-> "this"]
Undefined == [kind |-> "undefined"]
Resolved == [kind |-> "resolved"]
SendPromise(id) == [kind |-> "send", id |-> id]

----------------------------------------------------------------------------
(* CloudWatchDriver *)

serviceNamespace == "test"

\* a chunk() that drops the trailing shorter slice
ChunkFullOnly(list, size) ==
    [c \in 1..(Len(list) \div size) |-> SubSeq(list, (c - 1) * size + 1, c * size)]

\* chunk(list, size): consecutive slices of `size` elements, the last one shorter
Chunk(list, size) ==
    [c \in 1..((Len(list) + size - 1) \div size) |->
        SubSeq(list, (c - 1) * size + 1, Min2(c * size, Len(list)))]

IsArray(v) == Has(v, "arr")

\* the mapper of metricsBatch.map: one raw metric to one MetricData entry
ToMetricDatum(rawMetric) ==
    LET dims == IF Has(rawMetric, "dimensions") THEN rawMetric.dimensions ELSE <<>>
        result == [MetricName |-> rawMetric.name,
                   Dimensions |-> [i \in 1..Len(dims) |->
                                     [Name |-> dims[i].Name, Value |-> dims[i].Value]]]
        ts == IF Has(rawMetric, "timestamp")
              THEN [Timestamp |-> rawMetric.timestamp] ELSE <<>>
        val == IF IsArray(rawMetric.value)
               THEN [StatisticValues |->
                       [Maximum |-> ReduceMax(rawMetric.value.arr),
                        Minimum |-> ReduceMin(rawMetric.value.arr),
                        SampleCount |-> Len(rawMetric.value.arr),
                        Sum |-> ReduceSum(rawMetric.value.arr)]]
               ELSE [Value |-> rawMetric.value.num]
        unit == IF Has(rawMetric, "unit") THEN [Unit |-> rawMetric.unit] ELSE <<>>
    IN  result @@ ts @@ val @@ unit

\* the request built for one chunk
PutRequest(metricsBatch) ==
    [Namespace |-> serviceNamespace,
     MetricData |-> [i \in 1..Len(metricsBatch) |-> ToMetricDatum(metricsBatch[i])]]

\* sendMetrics: the state of BPromise.map(chunk(rawMetrics, 20), mapper, {concurrency: 1})
SendMetrics(rawMetrics) ==
    LET chunks == Chunk(rawMetrics, METRIC_COUNT_LIMIT)
    IN  [raw |-> rawMetrics,
         chunks |-> chunks,
         queued |-> 1..Len(chunks),
         calls |-> <<>>,
         inflight |-> 0,
         state |-> IF Len(chunks) = 0 THEN "fulfilled" ELSE "pending",
         err |-> "none"]

----------------------------------------------------------------------------
(* Initial states *)

\* a constructor that never arms the flush timer
ConstructTimerNever(a) == [flushTimer |-> "unset", timers |-> 0]

\* the timer after the constructor ran with options.auto = a
ConstructTimer(a) ==
    IF a THEN SetupFlushTimer([flushTimer |-> "unset", timers |-> 0])
    ELSE [flushTimer |-> "unset", timers |-> 0]

\* new MetricCollector({serviceNamespace, auto})
Init ==
    /\ auto \in BOOLEAN
    /\ stopped = ~auto
    /\ metrics = <<>>
    /\ flushTimer = ConstructTimer(auto).flushTimer
    /\ timers = ConstructTimer(auto).timers
    /\ sends = <<>>
    /\ last = [op |-> "constructor", seq |-> 0, flushed |-> FALSE, result |-> This]
    /\ arrivals = <<>>
    /\ added = EmptyBag
    /\ manual = FALSE
    /\ cleared = FALSE
    /\ ops = 0

----------------------------------------------------------------------------
(* MetricCollector: operations *)

\* the bag of the values of a list of observations
RECURSIVE ValueBag(_)
ValueBag(list) ==
    IF Len(list) = 0 THEN EmptyBag ELSE SetToBag({list[1].value}) (+) ValueBag(Tail(list))

\* an exception thrown out of a call
Threw(error) == [kind |-> "threw", error |-> error]

\* the record of a call: what was called, whether flush() ran, and the result
\* (the value or promise returned, or what was thrown)
Result(op, seq, flushed, result) ==
    [op |-> op, seq |-> seq, flushed |-> flushed, result |-> result]

\* the record of an addMetrics call, with the argument it was given
AddResult(arg, seq, result) ==
    Result("addMetrics", seq, FALSE, result) @@ [arg |-> arg]

\* addMetrics(metricsData)
AddMetrics(arg) ==
    /\ ops < MaxOps
    /\ ops' = ops + 1
    /\ IF arg.kind = "undefined"
       THEN /\ last' = AddResult(arg, ops + 1, Threw("AssertionError"))
            /\ UNCHANGED <<metrics, arrivals, added>>
       ELSE LET list == ConcatToList(arg)
                r == ForEach(metrics, list, 1)
                stored == SubSeq(list, 1, r.stored)
            IN  /\ metrics' = r.map
                /\ arrivals' = arrivals \o stored
                /\ added' = added (+) ValueBag(stored)
                /\ last' = IF r.threw
                           THEN AddResult(arg, ops + 1, Threw("TypeError"))
                           ELSE AddResult(arg, ops + 1, This)
    /\ UNCHANGED <<auto, stopped, flushTimer, timers, sends, manual, cleared>>

\* clearMetrics()
ClearMetrics ==
    /\ ops < MaxOps
    /\ ops' = ops + 1
    /\ metrics' = <<>>
    /\ arrivals' = <<>>
    /\ manual' = TRUE
    /\ cleared' = TRUE
    /\ UNCHANGED <<auto, stopped, flushTimer, timers, sends, last, added>>

\* _setupFlushTimer() called directly
SetupFlushTimerCall ==
    /\ ops < MaxOps
    /\ ops' = ops + 1
    /\ flushTimer' = SetupFlushTimer(Timer).flushTimer
    /\ timers' = SetupFlushTimer(Timer).timers
    /\ last' = Result("_setupFlushTimer", ops + 1, FALSE, Undefined)
    /\ manual' = TRUE
    /\ UNCHANGED <<auto, stopped, metrics, sends, arrivals, added, cleared>>

\* a flush() without the `metricsData.length === 0` early return
FlushSendsAlways(metricsData) == TRUE

\* whether flush() hands the snapshot it took to sendMetrics
FlushSends(metricsData) == Len(metricsData) # 0

\* what flush() returns: BPromise.resolve(), or the promise of the sendMetrics call it made
FlushReturn(metricsData) ==
    IF FlushSends(metricsData) THEN SendPromise(Len(sends) + 1) ELSE Resolved

\* a rearm step that forgets the `!this._stopped` test
FlushRearmIgnoresStopped(isStopped, t) ==
    IF auto THEN SetupFlushTimer(t) ELSE t

\* a rearm step placed after the `metricsData.length === 0` early return
FlushRearmIfData(isStopped, t) ==
    IF auto /\ ~isStopped /\ Len(metrics) # 0 THEN SetupFlushTimer(t) ELSE t

\* the timer after the rearm step of flush(), `isStopped` being this._stopped
FlushRearm(isStopped, t) ==
    IF auto /\ ~isStopped THEN SetupFlushTimer(t) ELSE t

\* a flush that forgot clearMetrics()
FlushedMapKept(m) == m

\* the map after flush(): this.clearMetrics()
FlushedMap(m) == <<>>

\* the body of flush(), run as operation `op`, the seq-th of the user (a timer
\* expiry is not one), with this._stopped = isStopped and the timer in state t
FlushBody(op, seq, isStopped, t) ==
    LET metricsData == getMetrics
        ret == FlushReturn(metricsData)
    IN  /\ metrics' = FlushedMap(metrics)
        /\ arrivals' = <<>>
        /\ flushTimer' = FlushRearm(isStopped, t).flushTimer
        /\ timers' = FlushRearm(isStopped, t).timers
        /\ sends' = IF FlushSends(metricsData)
                    THEN Append(sends, SendMetrics(metricsData))
                    ELSE sends
        /\ last' = Result(op, seq, TRUE, ret)

\* flush() called by the user
Flush ==
    /\ ops < MaxOps
    /\ ops' = ops + 1
    /\ FlushBody("flush", ops + 1, stopped, Timer)
    /\ manual' = TRUE
    /\ UNCHANGED <<auto, stopped, added, cleared>>

\* a stop() without the `if (this._stopped)` guard
StopNeverReturnsEarly == FALSE

\* whether stop() returns at once
StopReturnsEarly == stopped

\* stop()
Stop ==
    /\ ops < MaxOps
    /\ ops' = ops + 1
    /\ manual' = TRUE
    /\ IF StopReturnsEarly
       THEN /\ last' = Result("stop", ops + 1, FALSE, Resolved)
            /\ UNCHANGED <<stopped, metrics, arrivals, flushTimer, timers, sends>>
       ELSE /\ stopped' = TRUE
            /\ FlushBody("stop", ops + 1, TRUE, ClearTimeout(Timer))
    /\ UNCHANGED <<auto, added, cleared>>

\* the pending timeout expires and runs flush.bind(this)
TimerFire ==
    /\ timers > 0
    /\ \E isHandle \in BOOLEAN :
          /\ isHandle => flushTimer = "armed"
          /\ ~isHandle => timers > (IF flushTimer = "armed" THEN 1 ELSE 0)
          /\ FlushBody("timer", ops, stopped,
                       [flushTimer |-> IF isHandle THEN "fired" ELSE flushTimer,
                        timers |-> timers - 1])
    /\ UNCHANGED <<auto, stopped, added, manual, cleared, ops>>

----------------------------------------------------------------------------
(* CloudWatchDriver: the mapper and the transport *)

\* the mapper runs for chunk c of a send: putMetricData(metrics) is issued
IssueCall(send, c) ==
    [send EXCEPT !.queued = @ \ {c},
                 !.inflight = c,
                 !.calls = Append(@, [chunk |-> c,
                                      metrics |-> PutRequest(send.chunks[c]),
                                      outcome |-> "pending"])]

\* a mapper that does not return the call's promise: the map goes on while
\* the call is still in flight
SettleCallNotAwaited(send, outcome) == send

\* the call in flight is settled with `outcome`
SettleCall(send, outcome) ==
    [send EXCEPT !.calls[Len(send.calls)].outcome = outcome, !.inflight = 0]

\* the chunks BPromise.map may hand to the mapper next: the first chunk when
\* none was started, then any chunk still queued (the library leaves the
\* order unspecified)
Eligible(send) ==
    IF send.queued = 1..Len(send.chunks) THEN {1} \cap send.queued ELSE send.queued

\* BPromise.map starts: the mapper is invoked for the first chunk
MapStart(s) ==
    /\ sends[s].state = "pending"
    /\ sends[s].inflight = 0
    /\ sends[s].queued = 1..Len(sends[s].chunks)
    /\ \E c \in Eligible(sends[s]) :
          sends' = [sends EXCEPT ![s] = IssueCall(sends[s], c)]
    /\ UNCHANGED <<auto, stopped, metrics, flushTimer, timers, last, arrivals,
                   added, manual, cleared, ops>>

\* whether the map continues with another chunk after a call was fulfilled
MapContinues(send) == send.queued # {}

\* putMetricData(...).promise() is fulfilled: the next queued chunk starts,
\* or the whole sendMetrics promise is fulfilled
TransportResolve(s) ==
    /\ sends[s].state = "pending"
    /\ sends[s].inflight # 0
    /\ LET done == SettleCall(sends[s], "ok")
       IN  IF MapContinues(done)
           THEN \E c \in Eligible(done) :
                   sends' = [sends EXCEPT ![s] = IssueCall(done, c)]
           ELSE sends' = [sends EXCEPT ![s] = [done EXCEPT !.state = "fulfilled"]]
    /\ UNCHANGED <<auto, stopped, metrics, flushTimer, timers, last, arrivals,
                   added, manual, cleared, ops>>

\* a .catch handler that logs and does not rethrow: the call counts as fulfilled
RejectedSwallowed(send, err) ==
    IF send.queued = {} THEN [send EXCEPT !.state = "fulfilled"] ELSE send

\* the send after the .catch handler rethrew err: BPromise.map rejects with it
\* and starts no other chunk
Rejected(send, err) ==
    [send EXCEPT !.state = "rejected", !.err = err]

\* putMetricData(...).promise() is rejected with err
TransportReject(s, err) ==
    /\ sends[s].state = "pending"
    /\ sends[s].inflight # 0
    /\ sends' = [sends EXCEPT ![s] = Rejected(SettleCall(sends[s], err), err)]
    /\ UNCHANGED <<auto, stopped, metrics, flushTimer, timers, last, arrivals,
                   added, manual, cleared, ops>>

\* sendMetrics(rawMetrics) called directly on the driver
SendMetricsCall(arg) ==
    /\ Len(sends) = 0
    /\ sends' = Append(sends, SendMetrics(ConcatToList(arg)))
    /\ UNCHANGED <<auto, stopped, metrics, flushTimer, timers, last,
                   arrivals, added, manual, cleared, ops>>

\* arguments of a direct sendMetrics call: one raw metric, or a list
SendArgs ==
    {[kind |-> "one", obs |-> RawMetric(1)]}
    \cup {[kind |-> "list", list |-> RawList(n)] : n \in 0..MaxRecords}

----------------------------------------------------------------------------
(* Specifications *)

Next ==
    \/ \E arg \in FlushArgs : AddMetrics(arg)
    \/ ClearMetrics
    \/ SetupFlushTimerCall
    \/ Flush
    \/ Stop
    \/ TimerFire
    \/ \E s \in 1..Len(sends) : MapStart(s)
    \/ \E s \in 1..Len(sends) : TransportResolve(s)
    \/ \E s \in 1..Len(sends), err \in Errors : TransportReject(s, err)

\* the collector with its driver and transport
Spec == Init /\ [][Next]_vars

\* the same, the pending timeout eventually expiring
SpecLive == Spec /\ WF_vars(TimerFire)

\* the collector left to its timer: single observations only, so that the
\* timeout's expiry is followed over longer runs
NextTimer ==
    \/ AddMetrics([kind |-> "one", obs |-> ObsCount])
    \/ ClearMetrics
    \/ SetupFlushTimerCall
    \/ Flush
    \/ Stop
    \/ TimerFire
    \/ \E s \in 1..Len(sends) : MapStart(s)
    \/ \E s \in 1..Len(sends) : TransportResolve(s)
    \/ \E s \in 1..Len(sends), err \in Errors : TransportReject(s, err)

SpecTimer == Init /\ [][NextTimer]_vars /\ WF_vars(TimerFire)

\* the collector used through addMetrics, clearMetrics, flush and stop only:
\* _setupFlushTimer is called by the constructor and by flush alone
NextPublic ==
    \/ AddMetrics([kind |-> "one", obs |-> ObsCount])
    \/ ClearMetrics
    \/ Flush
    \/ Stop
    \/ TimerFire
    \/ \E s \in 1..Len(sends) : MapStart(s)
    \/ \E s \in 1..Len(sends) : TransportResolve(s)
    \/ \E s \in 1..Len(sends), err \in Errors : TransportReject(s, err)

SpecPublic == Init /\ [][NextPublic]_vars

\* new MetricCollector({serviceNamespace}): auto defaults to false
InitManual ==
    /\ auto = FALSE
    /\ stopped = ~auto
    /\ metrics = <<>>
    /\ flushTimer = ConstructTimer(auto).flushTimer
    /\ timers = ConstructTimer(auto).timers
    /\ sends = <<>>
    /\ last = [op |-> "constructor", seq |-> 0, flushed |-> FALSE, result |-> This]
    /\ arrivals = <<>>
    /\ added = EmptyBag
    /\ manual = FALSE
    /\ cleared = FALSE
    /\ ops = 0

NextDriver ==
    \/ \E arg \in SendArgs : SendMetricsCall(arg)
    \/ \E s \in 1..Len(sends) : MapStart(s)
    \/ \E s \in 1..Len(sends) : TransportResolve(s)
    \/ \E s \in 1..Len(sends), err \in Errors : TransportReject(s, err)

NextAgg ==
    \/ \E arg \in AddArgs : AddMetrics(arg)
    \/ ClearMetrics
    \/ Flush

\* the aggregation alone: addMetrics over all kinds of arguments, clearMetrics and flush
SpecAgg == InitManual /\ [][NextAgg]_vars

\* the driver alone, sendMetrics called once with a list of up to MaxRecords
SpecDriver == InitManual /\ [][NextDriver]_vars

----------------------------------------------------------------------------
(* Properties *)

RECURSIVE SeqBag(_)
\* the bag of the elements of a sequence
SeqBag(seq) ==
    IF Len(seq) = 0 THEN EmptyBag ELSE SetToBag({seq[1]}) (+) SeqBag(Tail(seq))

RECURSIVE SamplesBag(_)
\* the bag of all samples held by a list of accumulated records
SamplesBag(records) ==
    IF Len(records) = 0 THEN EmptyBag
    ELSE SeqBag(records[1].value.arr) (+) SamplesBag(Tail(records))

RECURSIVE HandedBag(_)
\* the bag of all samples in the snapshots handed to sendMetrics so far
HandedBag(ss) ==
    IF Len(ss) = 0 THEN EmptyBag ELSE SamplesBag(ss[1].raw) (+) HandedBag(Tail(ss))

\* a step in which flush() ran (called by the user, by stop() or by the timer)
FlushStep == last' # last /\ last'.flushed

\* a step in which stop() was called
StopStep == last' # last /\ last'.op = "stop"

\* the (name, dimension values) pair of an observation
Pair(obs) == <<obs.name, DimensionValues(obs)>>

\* C1: as long as clearMetrics was not called, every value stored by
\* addMetrics is in exactly one place, the map or one snapshot handed to
\* sendMetrics (also when added while a transport call is in flight); and a
\* flush hands sendMetrics exactly what getMetrics returned just before it
\* and leaves the map empty.
C1_NoValueLostOrDuplicated ==
    /\ [](~cleared => added = SamplesBag(getMetrics) (+) HandedBag(sends))
    /\ [][FlushStep =>
            /\ metrics' = <<>>
            /\ IF Len(metrics) = 0 THEN sends' = sends
               ELSE /\ Len(sends') = Len(sends) + 1
                    /\ SubSeq(sends', 1, Len(sends)) = sends
                    /\ sends'[Len(sends')].raw = getMetrics]_vars

\* C1 witness: an observation was added while an earlier flush's transport
\* call is in flight; it sits in the map, the flushed ones in the snapshot.
C1_Witness ==
    /\ ~cleared
    /\ Len(metrics) > 0
    /\ \E s \in 1..Len(sends) : sends[s].inflight # 0
    /\ added = SamplesBag(getMetrics) (+) HandedBag(sends)

\* the observations stored since the map was last emptied all have the same
\* name and the same dimension values
SameKeyArrivals ==
    /\ Len(arrivals) > 0
    /\ \A i, j \in 1..Len(arrivals) : Pair(arrivals[i]) = Pair(arrivals[j])

\* C2: observations that all share name and dimension values accumulate in
\* exactly one record, whose value sequence is their values in arrival order.
C2_SameKeyMergesInOrder ==
    SameKeyArrivals =>
        /\ Len(getMetrics) = 1
        /\ getMetrics[1].value.arr = [i \in 1..Len(arrivals) |-> arrivals[i].value]

\* C2 witness: three observations of one key, with different values, merged.
C2_Witness ==
    /\ SameKeyArrivals
    /\ Len(arrivals) = 3
    /\ \E i, j \in 1..Len(arrivals) : arrivals[i].value # arrivals[j].value
    /\ Len(getMetrics) = 1

\* C3: observations with pairwise distinct (name, dimension values) pairs
\* are kept one record per pair.
C3_DistinctPairsDistinctRecords ==
    (\A i, j \in 1..Len(arrivals) : i # j => Pair(arrivals[i]) # Pair(arrivals[j]))
        => Len(getMetrics) = Len(arrivals)

\* C4: stop() on a stopped aggregator resolves and changes nothing: no flush,
\* no sendMetrics, no transport call, same map, flag and timer.
C4_StopWhenStoppedIsNoOp ==
    [][(StopStep /\ stopped) =>
          /\ last'.result = Resolved
          /\ ~last'.flushed
          /\ UNCHANGED <<metrics, stopped, flushTimer, timers, sends>>]_vars

\* C4 witness: stop() returned at once on a stopped aggregator that holds records.
C4_Witness ==
    /\ last.op = "stop"
    /\ ~last.flushed
    /\ stopped
    /\ Len(metrics) > 0

\* C5: stop() on a running aggregator sets the stopped flag, leaves no
\* timeout pending, runs flush() exactly once and returns what that flush
\* returned (resolved, or the promise of the one sendMetrics call it made on
\* the records held); sendMetrics calls already in flight and their
\* transport calls are left as they are.
C5_StopWhenRunningFlushesOnce ==
    [][(StopStep /\ ~stopped) =>
          /\ stopped'
          /\ timers' = 0 /\ flushTimer' # "armed"
          /\ last'.flushed
          /\ metrics' = <<>>
          /\ SubSeq(sends', 1, Len(sends)) = sends
          /\ IF Len(metrics) = 0
             THEN sends' = sends /\ last'.result = Resolved
             ELSE /\ Len(sends') = Len(sends) + 1
                  /\ sends'[Len(sends')].raw = getMetrics
                  /\ last'.result = SendPromise(Len(sends'))]_vars

\* C5 witness: stop() flushed records while an earlier flush's transport
\* call was still in flight, and returned the promise of its own send.
C5_Witness ==
    /\ last.op = "stop" /\ last.flushed
    /\ last.result = SendPromise(Len(sends))
    /\ Len(sends) >= 2
    /\ sends[1].inflight # 0
    /\ stopped /\ timers = 0

\* C6: a flush() that finds the map empty resolves without calling
\* sendMetrics and without any transport call, in every mode.
C6_EmptyFlushSendsNothing ==
    [][(FlushStep /\ Len(metrics) = 0) =>
          /\ last'.result = Resolved
          /\ sends' = sends]_vars

\* C6 witness: flush() resolved at once on a running automatic aggregator
\* (the stopped and non-automatic cases are reached as well).
C6_Witness ==
    /\ last.op = "flush" /\ last.flushed
    /\ last.result = Resolved
    /\ auto /\ ~stopped

\* C7: an automatic aggregator that is left alone (no flush, stop,
\* clearMetrics or _setupFlushTimer call) has its timer expire and run flush.
C7_TimerEventuallyFlushes ==
    (auto /\ ~stopped /\ ~manual /\ last.op # "timer") ~> (manual \/ last.op = "timer")

\* C7 witness: the timer ran flush with no manual call made.
C7_Witness ==
    /\ auto /\ ~manual
    /\ last.op = "timer" /\ last.flushed

\* ceil(n / METRIC_COUNT_LIMIT)
ChunkCount(n) == (n + METRIC_COUNT_LIMIT - 1) \div METRIC_COUNT_LIMIT

\* the wire entries of the c-th consecutive slice of 20 of a list of raw metrics
SliceEntries(raw, c) ==
    LET from == (c - 1) * METRIC_COUNT_LIMIT + 1
        to == Min2(c * METRIC_COUNT_LIMIT, Len(raw))
    IN  [i \in 1..(to - from + 1) |-> ToMetricDatum(raw[from + i - 1])]

\* every transport call of a send carries one consecutive slice of the input,
\* at most 20 entries, and no slice is carried twice
CallsAreSlices(send) ==
    /\ \A k \in 1..Len(send.calls) :
          /\ send.calls[k].chunk \in 1..ChunkCount(Len(send.raw))
          /\ send.calls[k].metrics.MetricData = SliceEntries(send.raw, send.calls[k].chunk)
          /\ Len(send.calls[k].metrics.MetricData) \in 1..METRIC_COUNT_LIMIT
    /\ \A k1, k2 \in 1..Len(send.calls) :
          send.calls[k1].chunk = send.calls[k2].chunk => k1 = k2

\* C8 as stated: once sendMetrics has settled, exactly ceil(N/20) transport
\* calls were issued, carrying the consecutive slices of the input.
C8_EveryListFullyChunked ==
    \A s \in 1..Len(sends) :
        sends[s].state # "pending" =>
            /\ Len(sends[s].calls) = ChunkCount(Len(sends[s].raw))
            /\ CallsAreSlices(sends[s])

\* C8 amended: the transport calls of a sendMetrics call always carry
\* distinct consecutive slices of the input, at most 20 entries each, and
\* when no transport call fails there are exactly ceil(N/20) of them, so
\* every record is in exactly one call.
C8_ChunkedUnlessTransportFails ==
    \A s \in 1..Len(sends) :
        /\ CallsAreSlices(sends[s])
        /\ sends[s].state = "fulfilled" =>
              /\ Len(sends[s].calls) = ChunkCount(Len(sends[s].raw))
              /\ {sends[s].calls[k].chunk : k \in 1..Len(sends[s].calls)}
                    = 1..ChunkCount(Len(sends[s].raw))

\* C8 witness: a list of 41 records was sent in three calls of 20, 20 and 1.
C8_Witness ==
    /\ Len(sends) = 1
    /\ sends[1].state = "fulfilled"
    /\ Len(sends[1].raw) = 2 * METRIC_COUNT_LIMIT + 1
    /\ Len(sends[1].calls) = 3
    /\ \E k \in 1..3 : Len(sends[1].calls[k].metrics.MetricData) = 1

\* C9: when a transport call of a send fails with an error, the send is
\* rejected with that error, the failed call is the last one it issued and
\* none is in flight, and it never issues another one, so the chunks still
\* queued are never sent; and a flush() or stop() that sends returns the
\* promise of that very send.
C9_TransportFailurePropagates ==
    /\ [](\A s \in 1..Len(sends) : \A k \in 1..Len(sends[s].calls) :
            sends[s].calls[k].outcome \in Errors =>
                /\ sends[s].state = "rejected"
                /\ sends[s].err = sends[s].calls[k].outcome
                /\ sends[s].inflight = 0
                /\ k = Len(sends[s].calls))
    /\ [][\A s \in 1..Len(sends) :
            sends[s].state = "rejected" => sends'[s] = sends[s]]_vars
    /\ [][(FlushStep /\ Len(metrics) # 0) =>
            /\ last'.result = SendPromise(Len(sends'))
            /\ Len(sends') = Len(sends) + 1]_vars

\* C9 witness: stop() flushed 21 records, the transport failed on the first
\* chunk, and the second chunk is still queued on the rejected send.
C9_Witness ==
    /\ last.op = "stop" /\ last.flushed
    /\ last.result = SendPromise(Len(sends))
    /\ sends[Len(sends)].state = "rejected"
    /\ sends[Len(sends)].err = "E2"
    /\ sends[Len(sends)].queued # {}
    /\ Len(sends[Len(sends)].calls) = 1
    /\ sends[Len(sends)].calls[1].outcome = "E2"

\* the least, the greatest and the total of a non-empty sequence of numbers
LeastOf(seq) == CHOOSE x \in {seq[i] : i \in 1..Len(seq)} : \A i \in 1..Len(seq) : x <= seq[i]
GreatestOf(seq) == CHOOSE x \in {seq[i] : i \in 1..Len(seq)} : \A i \in 1..Len(seq) : x >= seq[i]
RECURSIVE TotalOf(_)
TotalOf(seq) == IF Len(seq) = 0 THEN 0 ELSE seq[1] + TotalOf(Tail(seq))

\* C10: a record with exactly one sample is sent with Value set to it and no
\* StatisticValues; a record with k > 1 samples is sent with StatisticValues
\* (Minimum, Maximum, SampleCount k, Sum) and no Value.
C10_OneSampleSentAsValue ==
    \A s \in 1..Len(sends) : \A k \in 1..Len(sends[s].calls) :
        \A i \in 1..Len(sends[s].calls[k].metrics.MetricData) :
            LET entry == sends[s].calls[k].metrics.MetricData[i]
                samples == sends[s].chunks[sends[s].calls[k].chunk][i].value.arr
            IN  IF Len(samples) = 1
                THEN /\ Has(entry, "Value") /\ entry.Value = samples[1]
                     /\ ~Has(entry, "StatisticValues")
                ELSE /\ ~Has(entry, "Value")
                     /\ Has(entry, "StatisticValues")
                     /\ entry.StatisticValues =
                            [Minimum |-> LeastOf(samples),
                             Maximum |-> GreatestOf(samples),
                             SampleCount |-> Len(samples),
                             Sum |-> TotalOf(samples)]

\* a step in which the transport call in flight of some send fails
RejectStep ==
    \E s \in 1..Len(sends) : sends[s].state = "pending" /\ sends'[s].state = "rejected"

\* the values of the observations stored under `key` since the map was last
\* emptied, in arrival order
ValuesUnder(key) ==
    LET idx == {i \in 1..Len(arrivals) : getMetricKey(arrivals[i]) = key}
    IN  [j \in 1..Cardinality(idx) |->
            arrivals[CHOOSE i \in idx : Cardinality({h \in idx : h <= i}) = j].value]

\* the map holds one record per key stored since it was last emptied, with
\* exactly the samples stored under that key since then
MapIsArrivals ==
    /\ {metrics[i].key : i \in 1..Len(metrics)}
          = {getMetricKey(arrivals[i]) : i \in 1..Len(arrivals)}
    /\ \A i \in 1..Len(metrics) : metrics[i].metric.value.arr = ValuesUnder(metrics[i].key)

\* C11: once a flush's transport call has failed, the map holds exactly what
\* the observations stored since the last flush (or clearMetrics) accumulate
\* to, so none of the failed snapshot's records is in it; the failure itself
\* leaves the map as it is.
C11_FailedFlushNotPutBack ==
    /\ []((\E s \in 1..Len(sends) : sends[s].state = "rejected") => MapIsArrivals)
    /\ [][RejectStep => metrics' = metrics]_vars

\* C11 witness: the records of a flush were lost to a transport failure while
\* an observation added after that flush sits alone in the map.
C11_Witness ==
    /\ Len(sends) = 1
    /\ sends[1].state = "rejected"
    /\ Len(sends[1].raw) > 0
    /\ Len(arrivals) = 1
    /\ Len(metrics) = 1
    /\ metrics[1].metric.value.arr = <<arrivals[1].value>>

\* C12: at most one transport request of the aggregator is in flight at any
\* moment, over all its sendMetrics calls.
C12_OneRequestInFlight ==
    Cardinality({s \in 1..Len(sends) : sends[s].inflight # 0}) <= 1

\* C13: a wire entry carries Unit exactly when the accumulated record it is
\* built from carries a units tag, and then Unit is that tag.
C13_UnitIffRecordHasUnits ==
    \A s \in 1..Len(sends) : \A k \in 1..Len(sends[s].calls) :
        \A i \in 1..Len(sends[s].calls[k].metrics.MetricData) :
            LET entry == sends[s].calls[k].metrics.MetricData[i]
                record == sends[s].chunks[sends[s].calls[k].chunk][i]
            IN  /\ Has(entry, "Unit") <=> Has(record, "units")
                /\ Has(record, "units") => entry.Unit = record.units

\* a step in which addMetrics was called
AddStep == last' # last /\ last'.op = "addMetrics"

\* the argument is absent or an empty list
EmptyArg(arg) == arg.kind = "undefined" \/ (arg.kind = "list" /\ Len(arg.list) = 0)

\* C14: addMetrics with an absent or empty argument fails with a validation
\* error and leaves the map unchanged; with any other argument it returns
\* the aggregator itself.
C14_EmptyArgumentRejected ==
    [][AddStep =>
          IF EmptyArg(last'.arg)
          THEN last'.result = Threw("AssertionError") /\ metrics' = metrics
          ELSE last'.result = This]_vars

\* C15: addMetrics with one observation that has no dimensions returns the
\* aggregator, and the observation's value is the newest sample of the
\* record kept under the key built from its name alone.
C15_MissingDimensionsAccepted ==
    [][(AddStep /\ last'.arg.kind = "one" /\ ~Has(last'.arg.obs, "dimensions")) =>
          /\ last'.result = This
          /\ \E i \in 1..Len(metrics') :
                /\ metrics'[i].key = last'.arg.obs.name \o ":"
                /\ metrics'[i].metric.value.arr[Len(metrics'[i].metric.value.arr)]
                      = last'.arg.obs.value]_vars

\* a step in which _setupFlushTimer() was called directly
RearmStep == last' # last /\ last'.op = "_setupFlushTimer"

\* C16 as stated: a flush timer is armed if and only if the aggregator is in
\* automatic mode and not stopped.
C16_TimerArmedIffRunning ==
    flushTimer = "armed" <=> (auto /\ ~stopped)

\* C16 amended: a flush timer is armed whenever the aggregator is automatic
\* and not stopped; on an aggregator that is not automatic or is stopped, a
\* timer gets armed only by a direct _setupFlushTimer() call.
C16_ArmedWhenRunningElseOnlyByDirectCall ==
    /\ [](auto /\ ~stopped => flushTimer = "armed")
    /\ [][(flushTimer' = "armed" /\ ~(auto' /\ ~stopped')) =>
             \/ flushTimer = "armed" /\ ~(auto /\ ~stopped)
             \/ RearmStep]_vars

\* C16 witness: a timer armed by a direct call on an automatic aggregator
\* that was stopped before.
C16_Witness ==
    /\ auto /\ stopped
    /\ flushTimer = "armed"
    /\ last.op = "_setupFlushTimer"

\* C17: within one sendMetrics call only the transport call issued last can
\* be unsettled, and a call is issued only when all earlier ones are settled.
C17_OneCallInFlightPerSend ==
    /\ [](\A s \in 1..Len(sends) : \A k \in 1..Len(sends[s].calls) :
            sends[s].calls[k].outcome = "pending" =>
                k = Len(sends[s].calls) /\ sends[s].inflight = sends[s].calls[k].chunk)
    /\ [][\A s \in 1..Len(sends) :
            Len(sends'[s].calls) > Len(sends[s].calls) =>
                /\ Len(sends'[s].calls) = Len(sends[s].calls) + 1
                /\ \A k \in 1..Len(sends[s].calls) :
                      sends'[s].calls[k].outcome # "pending"]_vars

\* C17 witness: the third call of a send is in flight, the first two settled.
C17_Witness ==
    /\ Len(sends) = 1
    /\ Len(sends[1].calls) = 3
    /\ sends[1].calls[1].outcome = "ok"
    /\ sends[1].calls[2].outcome = "ok"
    /\ sends[1].calls[3].outcome = "pending"

\* C18: the k-th transport call issued by a sendMetrics call carries the
\* k-th consecutive slice of its input.
C18_CallsInChunkOrder ==
    \A s \in 1..Len(sends) : \A k \in 1..Len(sends[s].calls) :
        /\ sends[s].calls[k].chunk = k
        /\ sends[s].calls[k].metrics.MetricData = SliceEntries(sends[s].raw, k)

\* C19: never more than one timeout is pending, and it is the one the handle
\* names; a manual flush() on a running automatic aggregator leaves exactly
\* one armed timer.
C19_AtMostOneTimerArmed ==
    /\ [](timers = IF flushTimer = "armed" THEN 1 ELSE 0)
    /\ [][(FlushStep /\ last'.op = "flush" /\ auto /\ ~stopped) =>
             timers' = 1 /\ flushTimer' = "armed"]_vars

\* C19 witness: a manual flush() was made while the automatic timer was
\* armed, and one timer is armed.
C19_Witness ==
    /\ last.op = "flush" /\ last.flushed
    /\ auto /\ ~stopped
    /\ timers = 1 /\ flushTimer = "armed"

\* C20: a flush (manual, by stop() or by the timer) leaves one freshly armed
\* timer when the aggregator is automatic and not stopped, and arms none
\* otherwise; this is so whether or not the snapshot is empty, and the send
\* it makes has issued no transport call yet.
C20_FlushRearmsOnlyWhenRunning ==
    [][FlushStep =>
          /\ IF auto /\ ~stopped'
             THEN flushTimer' = "armed" /\ timers' = 1
             ELSE timers' <= timers /\ (flushTimer' = "armed" => flushTimer = "armed")
          /\ Len(sends') > Len(sends) =>
                /\ sends'[Len(sends')].calls = <<>>
                /\ sends'[Len(sends')].state = "pending"]_vars

\* C20 witness: the timer expired on an empty map, flush resolved at once
\* and the timer is armed again.
C20_Witness ==
    /\ last.op = "timer" /\ last.flushed
    /\ last.result = Resolved
    /\ auto /\ ~stopped
    /\ flushTimer = "armed"

\* a step in which the timeout expired and ran flush
TimerStep == last' # last /\ last'.op = "timer"

\* C21: a stopped aggregator stays stopped whatever is called on it
\* (addMetrics, clearMetrics, flush, stop), no timeout is pending on it and
\* no timer-driven flush occurs on it.
C21_StoppedIsAbsorbing ==
    /\ [](stopped => timers = 0 /\ flushTimer # "armed")
    /\ [][stopped => stopped' /\ ~TimerStep]_vars

\* C21 witness: an automatic aggregator was stopped, observations were added
\* and flush() was called afterwards; it is still stopped with no timer.
C21_Witness ==
    /\ auto /\ stopped
    /\ last.op = "flush" /\ last.flushed
    /\ Len(sends) > 0
    /\ timers = 0

\* C22: addMetrics with one observation whose key is already in the map
\* appends its value to that record's samples and changes nothing else: the
\* record keeps its key, name, dimensions and units (or absence of units),
\* and every other record and the order of the records stay as they were.
C22_MergeChangesOnlySamples ==
    [][(/\ AddStep
        /\ last'.arg.kind = "one"
        /\ Has(last'.arg.obs, "dimensions")
        /\ MapIndex(metrics, getMetricKey(last'.arg.obs)) # 0) =>
          LET obs == last'.arg.obs
              i == MapIndex(metrics, getMetricKey(obs))
          IN  /\ Len(metrics') = Len(metrics)
              /\ \A j \in 1..Len(metrics) : j # i => metrics'[j] = metrics[j]
              /\ metrics'[i].key = metrics[i].key
              /\ DOMAIN metrics'[i].metric = DOMAIN metrics[i].metric
              /\ \A f \in DOMAIN metrics[i].metric \ {"value"} :
                    metrics'[i].metric[f] = metrics[i].metric[f]
              /\ metrics'[i].metric.value.arr
                    = Append(metrics[i].metric.value.arr, obs.value)]_vars

\* C22 witness: an observation in Milliseconds was merged into the record an
\* observation in Count had created; the record is still in Count.
C22_Witness ==
    /\ last.op = "addMetrics"
    /\ last.arg.kind = "one"
    /\ last.arg.obs = ObsMillis
    /\ Len(metrics) = 2
    /\ \E i \in 1..Len(metrics) :
          /\ Has(metrics[i].metric, "units")
          /\ metrics[i].metric.units = UNITS.COUNT
          /\ metrics[i].metric.value.arr = <<ObsCount.value, ObsMillis.value>>

\* C23: on an automatic aggregator that is not stopped, a non-empty map is
\* eventually emptied, and unless clearMetrics was called every value ever
\* stored has then been handed to sendMetrics (or the aggregator was stopped,
\* which flushes as well).
C23_EveryObservationEventuallyFlushed ==
    (auto /\ ~stopped /\ Len(metrics) > 0)
        ~> (stopped \/ (Len(metrics) = 0 /\ (~cleared => added = HandedBag(sends))))

\* C23 witness: with no manual call made, the timer flushed the observations
\* added and all of them were handed to sendMetrics.
C23_Witness ==
    /\ auto /\ ~stopped /\ ~manual
    /\ last.op = "timer"
    /\ Len(metrics) = 0
    /\ Len(sends) > 0
    /\ added = HandedBag(sends)

====
